---- MODULE Spec2Model ----
(***************************************************************************)
(* State-machine model of the Convex backend of affiliate-next-orchestrator *)
(* (servers.ts, apiKeys, deployments) and of the save flow of its web       *)
(* client: the apiKeys, servers and deployments tables, the user-callable   *)
(* functions, the scheduled actions provisionServer / destroyServer and     *)
(* deployWordPress / destroyWordPress, and handleSaveKeys, one model action *)
(* per transaction (mutation or ctx.runMutation / ctx.runQuery call) so     *)
(* that the interleavings of the awaits are the interleavings of the model. *)
(***************************************************************************)
EXTENDS Naturals, Sequences, FiniteSets, Bags

VARIABLES
    apiKeys,      \* the apiKeys table: sequence of documents in insertion order
    nextApiKeysId, \* next fresh id handed out by ctx.db.insert("apiKeys", ...)
    servers,      \* the servers table: function from document id to document
    nextServerId, \* next fresh id handed out by ctx.db.insert("servers", ...)
    tasks,        \* per server id, the bag of action runs the scheduler was given
    written,      \* per server id, the values written to the status field so far
    deleteCalls,  \* number of deleteServer calls that scheduled a destroyServer
    response,     \* outcome of the last user-callable mutation
    saving,       \* per browser session, where its handleSaveKeys stands
    deployments,  \* the deployments table: function from document id to document
    nextDeploymentId, \* next fresh id handed out by ctx.db.insert("deployments", ...)
    deployTasks   \* per deployment id, the bag of action runs the scheduler was given

\* The deployments table and the runs of its actions.
deployVars == <<deployments, nextDeploymentId, deployTasks>>

vars == <<apiKeys, nextApiKeysId, servers, nextServerId, tasks, written, deleteCalls, response, saving,
          deployments, nextDeploymentId, deployTasks>>

----------------------------------------------------------------------------
\* Bounds of the model.

\* createServer inserts at most this many server documents.
MaxServers == 1

\* createDeployment inserts at most this many deployment documents.
MaxDeployments == 1

\* deleteDeployment schedules at most this many destroyWordPress runs per deployment.
MaxDeploymentDeletes == 1

\* deleteServer schedules at most this many destroyServer runs in total.
MaxDeletes == 2

\* storeApiKeys inserts at most this many apiKeys documents.
MaxApiKeys == 3

\* Clients start at most this many deployWordPress / destroyWordPress runs in total.
MaxClientRuns == 1

----------------------------------------------------------------------------
\* Values.

Users == {"u1", "u2"}

\* authComponent.getAuthUser(ctx) finding no user.
NoUser == "none"

Callers == Users \cup {NoUser}

\* A JavaScript undefined (an optional field or argument that is absent).
Undefined == "undefined"

\* A deployment that was created before the run starts has this id.
SeededDeploymentId == MaxDeployments + 1

\* The deployment ids in play: those createDeployment hands out, and the seeded one.
DeploymentIds == 1..SeededDeploymentId

\* The store before any createDeployment.
NoDeployments ==
    /\ deployments = [id \in {} |-> Undefined]
    /\ nextDeploymentId = 1
    /\ deployTasks = [d \in DeploymentIds |-> EmptyBag]

NoError == "ok"

ErrNotAuthenticated == "Not authenticated"

ErrServerAccess == "Server not found or access denied"

ErrHetznerKey == "Valid Hetzner API key required"

ErrStoreFailed == "Failed to store API keys"

ErrNotUnique == "unique() query returned more than one result"

ErrDeleteMissing == "Delete on nonexistent document"

PlaceholderServerId == "placeholder-server-id"

PlaceholderIp == "192.168.1.100"

\* Date.now(): the model keeps only that a timestamp was written.
Now == "now"

\* The id of the server document that is in the store from the start, in the
\* specifications that start with one: an id createServer does not hand out.
SeededId == MaxServers + 1

\* The ids of the apiKeys documents that are in the store from the start, in
\* the specifications that start with some: ids storeApiKeys does not hand out.
SeededApiKeysId(n) == MaxApiKeys + n

\* The server ids in play: those createServer hands out, and the seeded one.
ServerIds == 1..SeededId

ServerStatus == {"creating", "installing", "configuring", "ready", "error", "deleting"}

\* Argument sets the user-callable mutations are called with.
NameArgs == {"web"}

RegionArgs == {"fsn1"}

HetznerKeyArgs == {"hk1"}

DokployKeyArgs == {Undefined}

DokployUrlArgs == {Undefined}

HetznerValidArgs == {TRUE}

DokployValidArgs == {FALSE}

ServiceArgs == {"all"}

----------------------------------------------------------------------------
\* Helpers over the tables.

\* JavaScript truthiness of an optional string: undefined and "" are falsy.
Truthy(x) == x # Undefined /\ x # ""

\* a || b on optional strings.
OrElse(a, b) == IF Truthy(a) THEN a ELSE b

\* Positions of the apiKeys documents of a user: the by_user index scan.
byUser(userId) == {i \in 1..Len(apiKeys) : apiKeys[i].userId = userId}

\* .unique(): the position of the only match, 0 for null; more than one match throws.
uniqueThrows(userId) == Cardinality(byUser(userId)) > 1

\* Mutant: the lookup finds no document.
uniqueKeyNull(userId) == 0

uniqueKey(userId) == IF byUser(userId) = {} THEN 0 ELSE CHOOSE i \in byUser(userId) : TRUE

RemoveAt(seq, i) == [j \in 1..(Len(seq) - 1) |-> IF j < i THEN seq[j] ELSE seq[j + 1]]

\* No client records what the mutations answer.
Unobserved == [op |-> "unobserved", caller |-> NoUser, error |-> NoError, tick |-> 0]

\* A client records the answers, and no mutation was called yet.
NoResponse == [op |-> "none", caller |-> NoUser, error |-> NoError, tick |-> 0]

\* What the client of a user-callable mutation observes: the error thrown
\* (NoError for a return); tick tells two equal calls apart.
Respond(op, caller, error) ==
    IF response = Unobserved
    THEN UNCHANGED response
    ELSE response' = [op |-> op, caller |-> caller, error |-> error, tick |-> 1 - response.tick]

----------------------------------------------------------------------------
\* The web client: browser sessions running handleSaveKeys of the
\* api-key-management component, one await at a time.

Sessions == {"tab1"}

\* The user logged in in a session.
SessionUser(c) == "u1"

\* What the form fields are filled with ("" is an empty field).
FormHetznerKeys == {"", "hk1", "hk2"}

FormDokployKeys == {"", "dk1"}

FormDokployUrls == {"", "https://dokploy.example"}

\* What a fetch of validateApiKeys comes back with: response.ok, status 401,
\* another status, or a throw.
FetchOutcomes == {"ok", "401", "error", "throw"}

\* A session with no handleSaveKeys running: the local validation is gone,
\* and what the form holds is whatever the user types before the next click.
\* answer is what the awaited mutation came back with (Undefined while the
\* call is under way).
SessionIdle ==
    [pc |-> "idle", hetznerApiKey |-> "", dokployApiKey |-> "", dokployUrl |-> "",
     hetznerValid |-> FALSE, dokployValid |-> FALSE, errors |-> <<>>, answer |-> Undefined]

\* No web client is part of the system.
SessionOff == [SessionIdle EXCEPT !.pc = "off"]

NoSessions == [c \in Sessions |-> SessionOff]

\* Who the calls of the sessions, and the calls with the same arguments made
\* outside a flow, come from: the users logged in in a session, and nobody.
SessionCallers == {SessionUser(c) : c \in Sessions} \cup {NoUser}

\* formData.x || undefined
FormArg(x) == IF Truthy(x) THEN x ELSE Undefined

\* The arguments of the call a session is about to make.
SessionCallArgs(c) ==
    IF saving[c].pc = "storeApiKeys"
    THEN <<FormArg(saving[c].hetznerApiKey), FormArg(saving[c].dokployApiKey),
           FormArg(saving[c].dokployUrl)>>
    ELSE <<saving[c].hetznerValid, saving[c].dokployValid>>

\* handleSaveKeys after the mutation op answered: the catch block on an error,
\* the next await after storeApiKeys, the form cleared after
\* updateValidationStatus.
SessionNext(c, op, error) ==
    IF error # NoError
    THEN [SessionIdle EXCEPT !.errors = <<"Failed to save API keys. Please try again.">>]
    ELSE IF op = "storeApiKeys"
    THEN [saving[c] EXCEPT !.pc = "updateValidationStatus", !.answer = Undefined]
    ELSE SessionIdle

\* A call of storeApiKeys or updateValidationStatus is the await of some
\* session's handleSaveKeys, made as the session's user (or as nobody, the
\* login having expired), or the call of another client of the public
\* mutation, which no session waits for. The mutation commits and its answer
\* is on its way to the session: handleSaveKeys resumes in a later step.
SessionCall(op, caller, args, error) ==
    \/ \E c \in Sessions :
           /\ saving[c].pc = op
           /\ saving[c].answer = Undefined
           /\ caller \in {SessionUser(c), NoUser}
           /\ args = SessionCallArgs(c)
           /\ saving' = [saving EXCEPT ![c].answer = error]
    \/ UNCHANGED saving

----------------------------------------------------------------------------
\* apiKeys: user-callable mutations. Each mutation is a transaction: the error
\* operator tells what it throws, and a throw leaves the store as it was.

\* getUserApiKeys: "throw" when there is no user, "null" when the user has no
\* document, otherwise what the query returns of the document.
getUserApiKeys(caller) ==
    IF caller = NoUser \/ uniqueThrows(caller) THEN "throw"
    ELSE IF uniqueKey(caller) = 0 THEN "null"
    ELSE LET doc == apiKeys[uniqueKey(caller)] IN
         [_id |-> doc._id,
          hasHetznerKey |-> Truthy(doc.hetznerApiKey),
          hasDokployKey |-> Truthy(doc.dokployApiKey),
          dokployUrl |-> doc.dokployUrl,
          isHetznerValid |-> doc.isHetznerValid,
          isDokployValid |-> doc.isDokployValid,
          lastValidated |-> doc.lastValidated]

storeApiKeysError(caller) ==
    IF caller = NoUser THEN ErrNotAuthenticated
    ELSE IF uniqueThrows(caller) THEN ErrStoreFailed
    ELSE NoError

\* Mutant: storeApiKeys patching an existing document leaves the validation
\* fields as they are.
storeApiKeysKeepsFlags(caller, hetznerApiKey, dokployApiKey, dokployUrl) ==
    /\ UNCHANGED <<servers, nextServerId, tasks, written, deleteCalls, deployVars>>
    /\ Respond("storeApiKeys", caller, storeApiKeysError(caller))
    /\ SessionCall("storeApiKeys", caller, <<hetznerApiKey, dokployApiKey, dokployUrl>>,
                   storeApiKeysError(caller))
    /\ IF storeApiKeysError(caller) # NoError
       THEN UNCHANGED <<apiKeys, nextApiKeysId>>
       ELSE LET i == uniqueKey(caller) IN
            IF i # 0
            THEN /\ UNCHANGED nextApiKeysId
                 /\ apiKeys' = [apiKeys EXCEPT ![i] =
                     [@ EXCEPT !.hetznerApiKey = OrElse(hetznerApiKey, @),
                               !.dokployApiKey = OrElse(dokployApiKey, @),
                               !.dokployUrl = OrElse(dokployUrl, @)]]
            ELSE /\ nextApiKeysId <= MaxApiKeys
                 /\ nextApiKeysId' = nextApiKeysId + 1
                 /\ apiKeys' = Append(apiKeys,
                        [_id |-> nextApiKeysId,
                         userId |-> caller,
                         hetznerApiKey |-> hetznerApiKey,
                         dokployApiKey |-> dokployApiKey,
                         dokployUrl |-> dokployUrl,
                         isHetznerValid |-> FALSE,
                         isDokployValid |-> FALSE,
                         lastValidated |-> Undefined])

storeApiKeys(caller, hetznerApiKey, dokployApiKey, dokployUrl) ==
    /\ UNCHANGED <<servers, nextServerId, tasks, written, deleteCalls, deployVars>>
    /\ Respond("storeApiKeys", caller, storeApiKeysError(caller))
    /\ SessionCall("storeApiKeys", caller, <<hetznerApiKey, dokployApiKey, dokployUrl>>,
                   storeApiKeysError(caller))
    /\ IF storeApiKeysError(caller) # NoError
       THEN UNCHANGED <<apiKeys, nextApiKeysId>>
       ELSE LET i == uniqueKey(caller) IN
            IF i # 0
            THEN /\ UNCHANGED nextApiKeysId
                 /\ apiKeys' = [apiKeys EXCEPT ![i] =
                     [@ EXCEPT !.hetznerApiKey = OrElse(hetznerApiKey, @),
                               !.dokployApiKey = OrElse(dokployApiKey, @),
                               !.dokployUrl = OrElse(dokployUrl, @),
                               !.isHetznerValid = FALSE,
                               !.isDokployValid = FALSE,
                               !.lastValidated = Undefined]]
            ELSE /\ nextApiKeysId <= MaxApiKeys
                 /\ nextApiKeysId' = nextApiKeysId + 1
                 /\ apiKeys' = Append(apiKeys,
                        [_id |-> nextApiKeysId,
                         userId |-> caller,
                         hetznerApiKey |-> hetznerApiKey,
                         dokployApiKey |-> dokployApiKey,
                         dokployUrl |-> dokployUrl,
                         isHetznerValid |-> FALSE,
                         isDokployValid |-> FALSE,
                         lastValidated |-> Undefined])

updateValidationStatusError(caller) ==
    IF caller = NoUser THEN ErrNotAuthenticated
    ELSE IF uniqueThrows(caller) THEN ErrNotUnique
    ELSE NoError

updateValidationStatus(caller, isHetznerValid, isDokployValid) ==
    /\ UNCHANGED <<nextApiKeysId, servers, nextServerId, tasks, written, deleteCalls, deployVars>>
    /\ Respond("updateValidationStatus", caller, updateValidationStatusError(caller))
    /\ SessionCall("updateValidationStatus", caller, <<isHetznerValid, isDokployValid>>,
                   updateValidationStatusError(caller))
    /\ IF updateValidationStatusError(caller) # NoError
       THEN UNCHANGED apiKeys
       ELSE LET i == uniqueKey(caller) IN
            IF i # 0
            THEN apiKeys' = [apiKeys EXCEPT ![i] =
                     [@ EXCEPT !.isHetznerValid = isHetznerValid,
                               !.isDokployValid = isDokployValid,
                               !.lastValidated = Now]]
            ELSE UNCHANGED apiKeys

deleteApiKeysError(caller) ==
    IF caller = NoUser THEN ErrNotAuthenticated
    ELSE IF uniqueThrows(caller) THEN ErrNotUnique
    ELSE NoError

deleteApiKeys(caller, serviceArg) ==
    /\ UNCHANGED <<nextApiKeysId, servers, nextServerId, tasks, written, deleteCalls, saving, deployVars>>
    /\ Respond("deleteApiKeys", caller, deleteApiKeysError(caller))
    /\ IF deleteApiKeysError(caller) # NoError
       THEN UNCHANGED apiKeys
       ELSE LET i == uniqueKey(caller)
                service == IF serviceArg = Undefined THEN "all" ELSE serviceArg
            IN
            IF i = 0
            THEN UNCHANGED apiKeys
            ELSE IF service = "all"
            THEN apiKeys' = RemoveAt(apiKeys, i)
            ELSE IF service = "hetzner"
            THEN apiKeys' = [apiKeys EXCEPT ![i] =
                     [@ EXCEPT !.hetznerApiKey = Undefined,
                               !.isHetznerValid = FALSE,
                               !.lastValidated = Undefined]]
            ELSE apiKeys' = [apiKeys EXCEPT ![i] =
                     [@ EXCEPT !.dokployApiKey = Undefined,
                               !.dokployUrl = Undefined,
                               !.isDokployValid = FALSE,
                               !.lastValidated = Undefined]]

----------------------------------------------------------------------------
\* apiKeys: the validateApiKeys action and the save flow that calls it.

\* The error a failed fetch pushes for a service.
FetchError(service, outcome) ==
    IF outcome = "401" THEN "Invalid " \o service \o " API key - authentication failed"
    ELSE IF outcome = "error" THEN "Failed to validate " \o service \o " API key - API error"
    ELSE IF service = "Dokploy"
         THEN "Failed to connect to Dokploy API - check URL and network connectivity"
    ELSE "Failed to connect to " \o service \o " API"

\* What validateApiKeys returns: a service is validated only if its key (for
\* Dokploy the key and the URL) is given; valid is response.ok, any other
\* outcome pushes an error.
validateApiKeysResult(hetznerApiKey, dokployApiKey, dokployUrl, hetznerFetch, dokployFetch) ==
    LET hetznerAsked == Truthy(hetznerApiKey)
        dokployAsked == Truthy(dokployApiKey) /\ Truthy(dokployUrl)
    IN
    [hetznerValid |-> hetznerAsked /\ hetznerFetch = "ok",
     dokployValid |-> dokployAsked /\ dokployFetch = "ok",
     errors |-> (IF hetznerAsked /\ hetznerFetch # "ok"
                 THEN <<FetchError("Hetzner", hetznerFetch)>> ELSE <<>>)
                \o (IF dokployAsked /\ dokployFetch # "ok"
                    THEN <<FetchError("Dokploy", dokployFetch)>> ELSE <<>>)]

\* Mutant: validateApiKeys keeps the keys it was given in the caller's document.
validateApiKeysStores(caller, hetznerApiKey, dokployApiKey, dokployUrl) ==
    /\ UNCHANGED <<nextApiKeysId, servers, nextServerId, tasks, written, deleteCalls, response, deployVars>>
    /\ apiKeys' = IF uniqueKey(caller) = 0 THEN apiKeys
                  ELSE [apiKeys EXCEPT ![uniqueKey(caller)].hetznerApiKey = hetznerApiKey,
                                       ![uniqueKey(caller)].dokployApiKey = dokployApiKey,
                                       ![uniqueKey(caller)].dokployUrl = dokployUrl]

\* validateApiKeys on the store: the handler makes no ctx.db, ctx.runMutation
\* or ctx.scheduler call, and asks for no user.
validateApiKeys(caller, hetznerApiKey, dokployApiKey, dokployUrl) ==
    UNCHANGED <<apiKeys, nextApiKeysId, servers, nextServerId, tasks, written, deleteCalls, response, deployVars>>

\* handleInputChange: a keystroke in a field of the form. The form's content
\* is what the next click passes, the errors shown are cleared.
handleInputChange(c) ==
    /\ saving[c].pc # "off"
    /\ saving' = [saving EXCEPT ![c].errors = <<>>]
    /\ UNCHANGED <<apiKeys, nextApiKeysId, servers, nextServerId, tasks, written, deleteCalls, response,
                   deployVars>>

\* handleSaveKeys up to its first await: the click on Save (enabled when some
\* field is filled and no save is running) with the form as it is filled;
\* isValidating is set, the errors are cleared and validateApiKeys is called.
handleSaveKeys(c, hetznerApiKey, dokployApiKey, dokployUrl) ==
    /\ saving[c].pc = "idle"
    /\ Truthy(hetznerApiKey) \/ Truthy(dokployApiKey) \/ Truthy(dokployUrl)
    /\ saving' = [saving EXCEPT ![c] =
                     [pc |-> "validating",
                      hetznerApiKey |-> hetznerApiKey,
                      dokployApiKey |-> dokployApiKey,
                      dokployUrl |-> dokployUrl,
                      hetznerValid |-> FALSE,
                      dokployValid |-> FALSE,
                      errors |-> <<>>,
                      answer |-> Undefined]]
    /\ UNCHANGED <<apiKeys, nextApiKeysId, servers, nextServerId, tasks, written, deleteCalls, response,
                   deployVars>>

\* handleSaveKeys, the answer of validateApiKeys: the early return when there
\* are errors, otherwise on to storeApiKeys.
handleSaveKeysValidation(c, hetznerFetch, dokployFetch) ==
    /\ saving[c].pc = "validating"
    /\ validateApiKeys(SessionUser(c), FormArg(saving[c].hetznerApiKey),
                       FormArg(saving[c].dokployApiKey), FormArg(saving[c].dokployUrl))
    /\ LET validation == validateApiKeysResult(FormArg(saving[c].hetznerApiKey),
                                               FormArg(saving[c].dokployApiKey),
                                               FormArg(saving[c].dokployUrl),
                                               hetznerFetch, dokployFetch)
       IN
       saving' = [saving EXCEPT ![c] =
                     IF Len(validation.errors) > 0
                     THEN [SessionIdle EXCEPT !.errors = validation.errors]
                     ELSE [saving[c] EXCEPT !.pc = "storeApiKeys",
                                            !.hetznerValid = validation.hetznerValid,
                                            !.dokployValid = validation.dokployValid]]

\* handleSaveKeys resuming after an awaited mutation answered: the catch
\* block on a throw, otherwise the next await (updateValidationStatus after
\* storeApiKeys) or the form cleared.
handleSaveKeysResume(c) ==
    /\ saving[c].pc \in {"storeApiKeys", "updateValidationStatus"}
    /\ saving[c].answer # Undefined
    /\ saving' = [saving EXCEPT ![c] = SessionNext(c, saving[c].pc, saving[c].answer)]
    /\ UNCHANGED <<apiKeys, nextApiKeysId, servers, nextServerId, tasks, written, deleteCalls, response,
                   deployVars>>

----------------------------------------------------------------------------
\* servers: queries and mutations.

\* Mutant: getServer answers null when there is no user.
getServerNullForNoUser(user, serverId) ==
    IF user = NoUser \/ serverId \notin DOMAIN servers \/ servers[serverId].userId # user
    THEN "null"
    ELSE "doc"

\* getServer: "throw" when there is no user, "null" when the document is missing
\* or belongs to another user, "doc" otherwise.
getServer(user, serverId) ==
    IF user = NoUser THEN "throw"
    ELSE IF serverId \notin DOMAIN servers \/ servers[serverId].userId # user THEN "null"
    ELSE "doc"

\* The document createServer inserts.
NewServer(userId, name, region) ==
    [userId |-> userId,
     hetznerServerId |-> "",
     name |-> name,
     ipAddress |-> Undefined,
     status |-> "creating",
     region |-> region,
     dokployInstalled |-> FALSE,
     createdAt |-> Now,
     errorMessage |-> Undefined]

\* A run of an action held by the scheduler: fn the action, user the user whose
\* mutation led to it, by the function that scheduled it, pc the await it
\* executes next, error the error its catch block holds.
NewTask(fn, user, by, pc) ==
    [fn |-> fn, user |-> user, by |-> by, pc |-> pc, error |-> Undefined]

\* ctx.scheduler.runAfter(0, internal.servers.provisionServer, {serverId}).
ScheduleProvision(bag, user, by) ==
    bag (+) SetToBag({NewTask("provisionServer", user, by, "installing")})

\* Mutant: the deletion path schedules the provisioning action.
ScheduleDestroyAsProvision(bag, user, by) == ScheduleProvision(bag, user, by)

\* ctx.scheduler.runAfter(0, internal.servers.destroyServer, {serverId}).
ScheduleDestroy(bag, user, by) ==
    bag (+) SetToBag({NewTask("destroyServer", user, by, "lookup")})

\* Mutant: createServer asks for a credential document, valid or not.
createServerErrorAnyKey(caller) ==
    IF caller = NoUser THEN ErrNotAuthenticated
    ELSE IF uniqueThrows(caller) THEN ErrNotUnique
    ELSE IF uniqueKey(caller) = 0 THEN ErrHetznerKey
    ELSE NoError

\* Mutant: createServer looks the credential document up under another id of
\* the user than the one storeApiKeys wrote it under.
createServerErrorOtherId(caller) ==
    IF caller = NoUser THEN ErrNotAuthenticated
    ELSE IF uniqueThrows("id-" \o caller) THEN ErrNotUnique
    ELSE IF uniqueKey("id-" \o caller) = 0 \/ ~apiKeys[uniqueKey("id-" \o caller)].isHetznerValid
    THEN ErrHetznerKey
    ELSE NoError

\* The error createServer throws, NoError when it goes through.
createServerError(caller) ==
    IF caller = NoUser THEN ErrNotAuthenticated
    ELSE IF uniqueThrows(caller) THEN ErrNotUnique
    ELSE IF uniqueKey(caller) = 0 \/ ~apiKeys[uniqueKey(caller)].isHetznerValid THEN ErrHetznerKey
    ELSE NoError

createServer(caller, name, region) ==
    /\ UNCHANGED <<apiKeys, nextApiKeysId, deleteCalls, saving, deployVars>>
    /\ Respond("createServer", caller, createServerError(caller))
    /\ IF createServerError(caller) # NoError
       THEN UNCHANGED <<servers, nextServerId, tasks, written>>
       ELSE /\ nextServerId <= MaxServers
            /\ servers' = [id \in DOMAIN servers \cup {nextServerId} |->
                             IF id = nextServerId THEN NewServer(caller, name, region)
                             ELSE servers[id]]
            /\ nextServerId' = nextServerId + 1
            /\ written' = [written EXCEPT ![nextServerId] = @ \cup {"creating"}]
            /\ tasks' = [tasks EXCEPT ![nextServerId] = ScheduleProvision(@, caller, "createServer")]

\* The error updateServerStatus throws for this user and server, NoError otherwise.
updateServerStatusError(user, serverId) ==
    IF user = NoUser THEN ErrNotAuthenticated
    ELSE IF serverId \notin DOMAIN servers \/ servers[serverId].userId # user THEN ErrServerAccess
    ELSE NoError

\* Mutant: updateServerStatus patches the status and nothing else.
updateServerStatusPatchStatusOnly(doc, args) == [doc EXCEPT !.status = args.status]

\* The updates object of updateServerStatus applied to a document: status always,
\* the optional arguments only when they are given.
updateServerStatusPatch(doc, args) ==
    [doc EXCEPT !.status = args.status,
                !.ipAddress = IF "ipAddress" \in args.given THEN args.ipAddress ELSE @,
                !.hetznerServerId = IF "hetznerServerId" \in args.given THEN args.hetznerServerId ELSE @,
                !.errorMessage = IF "errorMessage" \in args.given THEN args.errorMessage ELSE @,
                !.dokployInstalled = IF "dokployInstalled" \in args.given THEN args.dokployInstalled ELSE @]

\* The arguments of an updateServerStatus call: given names the optional
\* arguments that are passed (not undefined).
StatusArgs(status) ==
    [status |-> status, given |-> {}, ipAddress |-> Undefined, hetznerServerId |-> Undefined,
     errorMessage |-> Undefined, dokployInstalled |-> FALSE]

\* Mutant: updateServerStatus patches every server document.
updateServerStatusAll(serverId, args) ==
    /\ servers' = [id \in DOMAIN servers |-> updateServerStatusPatch(servers[id], args)]
    /\ written' = [written EXCEPT ![serverId] = @ \cup {args.status}]

\* updateServerStatus going through: the patch, and the status write recorded.
updateServerStatus(serverId, args) ==
    /\ servers' = [servers EXCEPT ![serverId] = updateServerStatusPatch(@, args)]
    /\ written' = [written EXCEPT ![serverId] = @ \cup {args.status}]

\* The error deleteServer throws, NoError when it goes through.
deleteServerError(caller, serverId) ==
    IF caller = NoUser THEN ErrNotAuthenticated
    ELSE IF serverId \notin DOMAIN servers \/ servers[serverId].userId # caller THEN ErrServerAccess
    ELSE NoError

deleteServer(caller, serverId) ==
    /\ UNCHANGED <<apiKeys, nextApiKeysId, nextServerId, saving, deployVars>>
    /\ Respond("deleteServer", caller, deleteServerError(caller, serverId))
    /\ IF deleteServerError(caller, serverId) # NoError
       THEN UNCHANGED <<servers, tasks, written, deleteCalls>>
       ELSE /\ deleteCalls < MaxDeletes
            /\ deleteCalls' = deleteCalls + 1
            /\ servers' = [servers EXCEPT ![serverId].status = "deleting"]
            /\ written' = [written EXCEPT ![serverId] = @ \cup {"deleting"}]
            /\ tasks' = [tasks EXCEPT ![serverId] = ScheduleDestroy(@, caller, "deleteServer")]

\* Mutant: deleteServerRecord removes nothing.
deleteServerRecordKeeps(serverId) == servers' = servers

\* deleteServerRecord: ctx.db.delete of a missing document throws.
deleteServerRecordThrows(serverId) == serverId \notin DOMAIN servers

deleteServerRecord(serverId) ==
    servers' = [id \in DOMAIN servers \ {serverId} |-> servers[id]]

----------------------------------------------------------------------------
\* The scheduled actions, one model action per await.

\* authComponent.getAuthUser(ctx) inside a mutation or query that an action
\* runs: the user the run was scheduled for, or no user. The auth component is
\* outside the source, so what it answers is an input of every call.
getAuthUser(task, authed) == IF authed THEN task.user ELSE NoUser

\* The runs of action fn for server s that are at pc.
TasksAt(s, fn, pc) == {t \in BagToSet(tasks[s]) : t.fn = fn /\ t.pc = pc}

\* The run t of server s moves on to pc (error: what its catch block holds).
Goto(s, t, pc, error) ==
    tasks' = [tasks EXCEPT ![s] =
                 (@ (-) SetToBag({t})) (+) SetToBag({[t EXCEPT !.pc = pc, !.error = error]})]

\* A status write inside the try block of provisionServer: on a throw the run
\* enters the catch block with the error.
provisionWrite(s, t, authed, args, next) ==
    LET e == updateServerStatusError(getAuthUser(t, authed), s) IN
    /\ UNCHANGED <<apiKeys, nextApiKeysId, nextServerId, deleteCalls, response, saving, deployVars>>
    /\ IF e = NoError
       THEN /\ updateServerStatus(s, args)
            /\ Goto(s, t, next, Undefined)
       ELSE /\ Goto(s, t, "error", e)
            /\ UNCHANGED <<servers, written>>

\* Step 1: status installing with the provider id and the address.
provisionServerInstalling(s, authed) ==
    \E t \in TasksAt(s, "provisionServer", "installing") :
        /\ provisionWrite(s, t, authed,
               [StatusArgs("installing") EXCEPT !.given = {"hetznerServerId", "ipAddress"},
                                                !.hetznerServerId = PlaceholderServerId,
                                                !.ipAddress = PlaceholderIp],
               "configuring")

\* Mutant: step 3 writes the status of step 4.
provisionServerConfiguringAsReady(s, authed) ==
    \E t \in TasksAt(s, "provisionServer", "configuring") :
        /\ provisionWrite(s, t, authed, StatusArgs("ready"), "ready")

\* Step 3: status configuring.
provisionServerConfiguring(s, authed) ==
    \E t \in TasksAt(s, "provisionServer", "configuring") :
        /\ provisionWrite(s, t, authed, StatusArgs("configuring"), "ready")

\* Step 4: status ready, dokployInstalled true; then the run returns.
provisionServerReady(s, authed) ==
    \E t \in TasksAt(s, "provisionServer", "ready") :
        /\ provisionWrite(s, t, authed,
               [StatusArgs("ready") EXCEPT !.given = {"dokployInstalled"},
                                           !.dokployInstalled = TRUE],
               "done")

\* catch: status error with the message; a throw here ends the run with an
\* unhandled error, before the cleanup is scheduled.
provisionServerCatch(s, authed) ==
    \E t \in TasksAt(s, "provisionServer", "error") :
        /\ UNCHANGED <<apiKeys, nextApiKeysId, nextServerId, deleteCalls, response, saving, deployVars>>
        /\ IF updateServerStatusError(getAuthUser(t, authed), s) = NoError
           THEN /\ updateServerStatus(s, [StatusArgs("error") EXCEPT !.given = {"errorMessage"},
                                                                      !.errorMessage = t.error])
                /\ Goto(s, t, "cleanup", Undefined)
           ELSE /\ Goto(s, t, "failed", Undefined)
                /\ UNCHANGED <<servers, written>>

\* catch, second await: schedule destroyServer, then the run returns.
provisionServerCleanup(s) ==
    \E t \in TasksAt(s, "provisionServer", "cleanup") :
        /\ UNCHANGED <<apiKeys, nextApiKeysId, servers, nextServerId, written, deleteCalls, response, saving, deployVars>>
        /\ tasks' = [tasks EXCEPT ![s] =
                        ScheduleDestroy((@ (-) SetToBag({t})) (+) SetToBag({[t EXCEPT !.pc = "done"]}),
                                        t.user, "provisionServer")]

\* destroyServer, try: the getServer lookup.
destroyServerLookup(s, authed) ==
    \E t \in TasksAt(s, "destroyServer", "lookup") :
        /\ UNCHANGED <<apiKeys, nextApiKeysId, servers, nextServerId, written, deleteCalls, response, saving, deployVars>>
        /\ LET r == getServer(getAuthUser(t, authed), s) IN
           IF r = "throw" THEN Goto(s, t, "catch", Undefined)
           ELSE IF r = "null" THEN Goto(s, t, "done", Undefined)
           ELSE Goto(s, t, "delete", Undefined)

\* destroyServer, try: deleteServerRecord.
destroyServerDelete(s) ==
    \E t \in TasksAt(s, "destroyServer", "delete") :
        /\ UNCHANGED <<apiKeys, nextApiKeysId, nextServerId, written, deleteCalls, response, saving, deployVars>>
        /\ IF deleteServerRecordThrows(s)
           THEN /\ Goto(s, t, "catch", Undefined)
                /\ UNCHANGED servers
           ELSE /\ deleteServerRecord(s)
                /\ Goto(s, t, "done", Undefined)

\* destroyServer, catch: deleteServerRecord again; a throw here is unhandled.
destroyServerCatch(s) ==
    \E t \in TasksAt(s, "destroyServer", "catch") :
        /\ UNCHANGED <<apiKeys, nextApiKeysId, nextServerId, written, deleteCalls, response, saving, deployVars>>
        /\ IF deleteServerRecordThrows(s)
           THEN /\ Goto(s, t, "failed", Undefined)
                /\ UNCHANGED servers
           ELSE /\ deleteServerRecord(s)
                /\ Goto(s, t, "done", Undefined)

----------------------------------------------------------------------------
\* The system.

Init ==
    /\ apiKeys = <<>>
    /\ nextApiKeysId = 1
    /\ servers = [id \in {} |-> Undefined]
    /\ nextServerId = 1
    /\ tasks = [s \in ServerIds |-> EmptyBag]
    /\ written = [s \in ServerIds |-> {}]
    /\ deleteCalls = 0
    /\ response = Unobserved
    /\ saving = NoSessions
    /\ NoDeployments

\* The user-callable mutations, called by any user or by nobody.
KeysCallBy(caller) ==
    \/ \E hk \in HetznerKeyArgs, dk \in DokployKeyArgs, url \in DokployUrlArgs :
           storeApiKeys(caller, hk, dk, url)
    \/ \E hv \in HetznerValidArgs, dv \in DokployValidArgs :
           updateValidationStatus(caller, hv, dv)
    \/ \E service \in ServiceArgs : deleteApiKeys(caller, service)

UserCallBy(caller) ==
    \/ KeysCallBy(caller)
    \/ \E name \in NameArgs, region \in RegionArgs : createServer(caller, name, region)
    \/ \E s \in ServerIds : deleteServer(caller, s)

UserCall == \E caller \in Callers : UserCallBy(caller)

ProvisionStep ==
    \E s \in ServerIds :
        \/ \E authed \in BOOLEAN : provisionServerInstalling(s, authed)
        \/ \E authed \in BOOLEAN : provisionServerConfiguring(s, authed)
        \/ \E authed \in BOOLEAN : provisionServerReady(s, authed)
        \/ \E authed \in BOOLEAN : provisionServerCatch(s, authed)
        \/ provisionServerCleanup(s)

DestroyStep ==
    \E s \in ServerIds :
        \/ \E authed \in BOOLEAN : destroyServerLookup(s, authed)
        \/ destroyServerDelete(s)
        \/ destroyServerCatch(s)

Next == UserCall \/ ProvisionStep \/ DestroyStep

\* The backend: user calls and the steps of the scheduled runs, interleaved.
Spec == Init /\ [][Next]_vars

\* The scheduler runs every run it holds: a run with a step to take takes it.
FairSpec == Spec /\ WF_vars(ProvisionStep) /\ WF_vars(DestroyStep)

\* A server that is ready: the document as createServer inserted it and the
\* writes of its provisionServer run (steps 1 and 4) left it.
ReadyServer(userId, name, region) ==
    updateServerStatusPatch(
        updateServerStatusPatch(NewServer(userId, name, region),
            [StatusArgs("installing") EXCEPT !.given = {"hetznerServerId", "ipAddress"},
                                             !.hetznerServerId = PlaceholderServerId,
                                             !.ipAddress = PlaceholderIp]),
        [StatusArgs("ready") EXCEPT !.given = {"dokployInstalled"}, !.dokployInstalled = TRUE])

\* The user-callable mutations alone, each answer recorded by the client.
InitCalls ==
    /\ apiKeys = <<>>
    /\ nextApiKeysId = 1
    /\ servers = [id \in {} |-> Undefined]
    /\ nextServerId = 1
    /\ tasks = [s \in ServerIds |-> EmptyBag]
    /\ written = [s \in ServerIds |-> {}]
    /\ deleteCalls = 0
    /\ response = NoResponse
    /\ saving = NoSessions
    /\ NoDeployments

SpecCalls == InitCalls /\ [][UserCall]_vars

\* The web clients on the credential store: every session idle, no document.
InitSave ==
    /\ apiKeys = <<>>
    /\ nextApiKeysId = 1
    /\ servers = [id \in {} |-> Undefined]
    /\ nextServerId = 1
    /\ tasks = [s \in ServerIds |-> EmptyBag]
    /\ written = [s \in ServerIds |-> {}]
    /\ deleteCalls = 0
    /\ response = Unobserved
    /\ saving = [c \in Sessions |-> SessionIdle]
    /\ NoDeployments

\* The public apiKeys mutations called by any client, in a save flow or
\* outside one: the session users and nobody with what a form can hold, the
\* other users with the arguments of the other specifications.
ClientCall ==
    \/ \E caller \in SessionCallers, hk \in FormHetznerKeys, dk \in FormDokployKeys,
          url \in FormDokployUrls :
           storeApiKeys(caller, FormArg(hk), FormArg(dk), FormArg(url))
    \/ \E caller \in SessionCallers, hv \in BOOLEAN, dv \in BOOLEAN :
           updateValidationStatus(caller, hv, dv)
    \/ \E caller \in SessionCallers, service \in {"hetzner", "dokploy", "all"} :
           deleteApiKeys(caller, service)
    \/ \E caller \in Users \ SessionCallers :
           \/ \E hk \in HetznerKeyArgs, dk \in DokployKeyArgs, url \in DokployUrlArgs :
                  storeApiKeys(caller, hk, dk, url)
           \/ \E hv \in HetznerValidArgs, dv \in DokployValidArgs :
                  updateValidationStatus(caller, hv, dv)
           \/ \E service \in ServiceArgs : deleteApiKeys(caller, service)

\* The steps of the save flow of a session (a keystroke, the click, the answer
\* of validateApiKeys, the answer of an awaited mutation) and the mutations,
\* awaited by a flow or not.
NextSave ==
    \/ \E c \in Sessions : handleInputChange(c)
    \/ \E c \in Sessions, hk \in FormHetznerKeys, dk \in FormDokployKeys, url \in FormDokployUrls :
           handleSaveKeys(c, hk, dk, url)
    \/ \E c \in Sessions, hf \in FetchOutcomes, df \in FetchOutcomes :
           handleSaveKeysValidation(c, hf, df)
    \/ \E c \in Sessions : handleSaveKeysResume(c)
    \/ ClientCall

SpecSave == InitSave /\ [][NextSave]_vars

\* The apiKeys mutations on their own, the answer of each call observed: no
\* document, no web client.
InitKeys ==
    /\ apiKeys = <<>>
    /\ nextApiKeysId = 1
    /\ servers = [id \in {} |-> Undefined]
    /\ nextServerId = 1
    /\ tasks = [s \in ServerIds |-> EmptyBag]
    /\ written = [s \in ServerIds |-> {}]
    /\ deleteCalls = 0
    /\ response = NoResponse
    /\ saving = NoSessions
    /\ NoDeployments

SpecKeys == InitKeys /\ [][ClientCall]_vars

\* A second server next to one that is being provisioned: the seeded server
\* as createServer left it, its owner's credentials validated, and the users
\* calling createServer and deleteServer.
InitTwo ==
    \E user \in Users, name \in NameArgs, region \in RegionArgs, hk \in HetznerKeyArgs :
        /\ nextApiKeysId = 1
        /\ apiKeys = <<[_id |-> SeededApiKeysId(1),
                        userId |-> user,
                        hetznerApiKey |-> hk,
                        dokployApiKey |-> Undefined,
                        dokployUrl |-> Undefined,
                        isHetznerValid |-> TRUE,
                        isDokployValid |-> FALSE,
                        lastValidated |-> Now]>>
        /\ servers = [id \in {SeededId} |-> NewServer(user, name, region)]
        /\ nextServerId = 1
        /\ tasks = [s \in ServerIds |->
                      IF s = SeededId THEN ScheduleProvision(EmptyBag, user, "createServer")
                      ELSE EmptyBag]
        /\ written = [s \in ServerIds |-> IF s = SeededId THEN {"creating"} ELSE {}]
        /\ deleteCalls = 0
        /\ response = Unobserved
        /\ saving = NoSessions
        /\ NoDeployments

NextTwo ==
    \/ \E caller \in Callers, name \in NameArgs, region \in RegionArgs :
           createServer(caller, name, region)
    \/ \E caller \in Callers, s \in ServerIds : deleteServer(caller, s)
    \/ ProvisionStep
    \/ DestroyStep

SpecTwo == InitTwo /\ [][NextTwo]_vars

----------------------------------------------------------------------------
\* The deployments module: the deployments table, its user-callable
\* functions and the actions deployWordPress / destroyWordPress.

ErrServerNotReady == "Server is not ready for deployments"

ErrDokployKey == "Valid Dokploy API key required"

ErrDeploymentAccess == "Deployment not found or access denied"

ErrDeploymentNotFound == "Deployment not found"

DeploymentStatus == {"deploying", "running", "stopped", "error"}

DeploymentNameArgs == {"blog"}

DomainArgs == {Undefined}

AdminUserArgs == {"admin"}

AdminPassArgs == {"secret"}

EnableSslArgs == {FALSE}

\* The optional errorMessage of updateDeploymentStatus: absent, or a text.
ErrorMessageArgs == {Undefined, "boom"}

\* The document createDeployment inserts.
NewDeployment(userId, serverId, name, domain, adminUser, adminPass, enableSsl) ==
    [userId |-> userId,
     serverId |-> serverId,
     name |-> name,
     domain |-> domain,
     status |-> "deploying",
     wordpressAdminUser |-> adminUser,
     wordpressAdminPass |-> adminPass,
     sslEnabled |-> enableSsl,
     createdAt |-> Now,
     errorMessage |-> Undefined]

\* ctx.scheduler.runAfter(0, internal.deployments.deployWordPress, {deploymentId}).
ScheduleDeploy(bag, user, by) ==
    bag (+) SetToBag({NewTask("deployWordPress", user, by, "lookup")})

\* ctx.scheduler.runAfter(0, internal.deployments.destroyWordPress, {deploymentId}).
ScheduleDestroyWordPress(bag, user, by) ==
    bag (+) SetToBag({NewTask("destroyWordPress", user, by, "delete")})

\* server?.name || "Unknown Server".
serverName(serverId) ==
    IF serverId \in DOMAIN servers THEN OrElse(servers[serverId].name, "Unknown Server")
    ELSE "Unknown Server"

\* What a deployments query returns of a document.
DeploymentView(d) ==
    [_id |-> d,
     name |-> deployments[d].name,
     domain |-> deployments[d].domain,
     status |-> deployments[d].status,
     wordpressAdminUser |-> deployments[d].wordpressAdminUser,
     sslEnabled |-> deployments[d].sslEnabled,
     createdAt |-> deployments[d].createdAt,
     errorMessage |-> deployments[d].errorMessage]

\* The same with the server id and the server's name.
DeploymentViewWithServer(d) ==
    [_id |-> d,
     serverId |-> deployments[d].serverId,
     serverName |-> serverName(deployments[d].serverId),
     name |-> deployments[d].name,
     domain |-> deployments[d].domain,
     status |-> deployments[d].status,
     wordpressAdminUser |-> deployments[d].wordpressAdminUser,
     sslEnabled |-> deployments[d].sslEnabled,
     createdAt |-> deployments[d].createdAt,
     errorMessage |-> deployments[d].errorMessage]

\* getDeployment: "throw" without a user, "null" for a missing document or
\* one of another user, the fields otherwise.
getDeployment(user, deploymentId) ==
    IF user = NoUser THEN "throw"
    ELSE IF deploymentId \notin DOMAIN deployments \/ deployments[deploymentId].userId # user
         THEN "null"
    ELSE DeploymentViewWithServer(deploymentId)

\* Mutant: createDeployment does not look at the server's status.
createDeploymentErrorAnyStatus(caller, serverId) ==
    IF caller = NoUser THEN ErrNotAuthenticated
    ELSE IF serverId \notin DOMAIN servers \/ servers[serverId].userId # caller THEN ErrServerAccess
    ELSE IF uniqueThrows(caller) THEN ErrNotUnique
    ELSE IF uniqueKey(caller) = 0 \/ ~apiKeys[uniqueKey(caller)].isDokployValid THEN ErrDokployKey
    ELSE NoError

\* The error createDeployment throws, NoError when it goes through.
createDeploymentError(caller, serverId) ==
    IF caller = NoUser THEN ErrNotAuthenticated
    ELSE IF serverId \notin DOMAIN servers \/ servers[serverId].userId # caller THEN ErrServerAccess
    ELSE IF servers[serverId].status # "ready" \/ ~servers[serverId].dokployInstalled
         THEN ErrServerNotReady
    ELSE IF uniqueThrows(caller) THEN ErrNotUnique
    ELSE IF uniqueKey(caller) = 0 \/ ~apiKeys[uniqueKey(caller)].isDokployValid THEN ErrDokployKey
    ELSE NoError

createDeployment(caller, serverId, name, domain, adminUser, adminPass, enableSsl) ==
    /\ UNCHANGED <<apiKeys, nextApiKeysId, servers, nextServerId, tasks, written, deleteCalls, saving>>
    /\ Respond("createDeployment", caller, createDeploymentError(caller, serverId))
    /\ IF createDeploymentError(caller, serverId) # NoError
       THEN UNCHANGED deployVars
       ELSE /\ nextDeploymentId <= MaxDeployments
            /\ deployments' = [id \in DOMAIN deployments \cup {nextDeploymentId} |->
                                  IF id = nextDeploymentId
                                  THEN NewDeployment(caller, serverId, name, domain,
                                                     adminUser, adminPass, enableSsl)
                                  ELSE deployments[id]]
            /\ nextDeploymentId' = nextDeploymentId + 1
            /\ deployTasks' = [deployTasks EXCEPT ![nextDeploymentId] =
                                  ScheduleDeploy(@, caller, "createDeployment")]

\* Mutant: updateDeploymentStatus does not ask for a user.
updateDeploymentStatusErrorNoAuth(user, deploymentId) ==
    IF deploymentId \notin DOMAIN deployments \/ deployments[deploymentId].userId # user
         THEN ErrDeploymentAccess
    ELSE NoError

\* The error updateDeploymentStatus throws for this user and deployment.
updateDeploymentStatusError(user, deploymentId) ==
    IF user = NoUser THEN ErrNotAuthenticated
    ELSE IF deploymentId \notin DOMAIN deployments \/ deployments[deploymentId].userId # user
         THEN ErrDeploymentAccess
    ELSE NoError

\* The arguments of an updateDeploymentStatus call: given names the optional
\* arguments that are passed.
DeploymentStatusArgs(status, errorMessage) ==
    [status |-> status,
     given |-> IF errorMessage # Undefined THEN {"errorMessage"} ELSE {},
     errorMessage |-> errorMessage]

\* updateDeploymentStatus going through: status always, errorMessage when given.
updateDeploymentStatusPatch(deploymentId, args) ==
    deployments' = [deployments EXCEPT
                       ![deploymentId].status = args.status,
                       ![deploymentId].errorMessage =
                           IF "errorMessage" \in args.given THEN args.errorMessage ELSE @]

\* updateDeploymentStatus called by a client.
updateDeploymentStatus(caller, deploymentId, status, errorMessage) ==
    /\ UNCHANGED <<apiKeys, nextApiKeysId, servers, nextServerId, tasks, written, deleteCalls, saving>>
    /\ UNCHANGED <<nextDeploymentId, deployTasks>>
    /\ Respond("updateDeploymentStatus", caller, updateDeploymentStatusError(caller, deploymentId))
    /\ IF updateDeploymentStatusError(caller, deploymentId) # NoError
       THEN UNCHANGED deployments
       ELSE updateDeploymentStatusPatch(deploymentId, DeploymentStatusArgs(status, errorMessage))

\* The number of destroyWordPress runs deleteDeployment has scheduled for a deployment so far.
DestroyWordPressScheduled(d) ==
    BagCardinality([t \in {x \in BagToSet(deployTasks[d]) : x.fn = "destroyWordPress" /\ x.by = "deleteDeployment"} |->
                       CopiesIn(t, deployTasks[d])])

deleteDeployment(caller, deploymentId) ==
    /\ UNCHANGED <<apiKeys, nextApiKeysId, servers, nextServerId, tasks, written, deleteCalls, saving>>
    /\ UNCHANGED nextDeploymentId
    /\ Respond("deleteDeployment", caller, updateDeploymentStatusError(caller, deploymentId))
    /\ IF updateDeploymentStatusError(caller, deploymentId) # NoError
       THEN UNCHANGED <<deployments, deployTasks>>
       ELSE /\ DestroyWordPressScheduled(deploymentId) < MaxDeploymentDeletes
            /\ deployments' = [deployments EXCEPT ![deploymentId].status = "stopped"]
            /\ deployTasks' = [deployTasks EXCEPT ![deploymentId] =
                                  ScheduleDestroyWordPress(@, caller, "deleteDeployment")]

\* deleteDeploymentRecord: ctx.db.delete of a missing document throws.
deleteDeploymentRecordThrows(deploymentId) == deploymentId \notin DOMAIN deployments

deleteDeploymentRecordDelete(deploymentId) ==
    deployments' = [id \in DOMAIN deployments \ {deploymentId} |-> deployments[id]]

\* deleteDeploymentRecord called by a client: exported with mutation, it asks
\* for no user.
deleteDeploymentRecord(caller, deploymentId) ==
    /\ UNCHANGED <<apiKeys, nextApiKeysId, servers, nextServerId, tasks, written, deleteCalls, saving>>
    /\ UNCHANGED <<nextDeploymentId, deployTasks>>
    /\ Respond("deleteDeploymentRecord", caller,
               IF deleteDeploymentRecordThrows(deploymentId) THEN ErrDeleteMissing ELSE NoError)
    /\ IF deleteDeploymentRecordThrows(deploymentId)
       THEN UNCHANGED deployments
       ELSE deleteDeploymentRecordDelete(deploymentId)

\* The number of runs clients have started so far.
ClientRuns ==
    LET started(d) == [t \in {x \in BagToSet(deployTasks[d]) : x.by = "client"} |->
                          CopiesIn(t, deployTasks[d])]
        Sum[ds \in SUBSET DeploymentIds] ==
            IF ds = {} THEN 0
            ELSE LET d == CHOOSE x \in ds : TRUE IN BagCardinality(started(d)) + Sum[ds \ {d}]
    IN Sum[DeploymentIds]

\* deployWordPress called by a client: exported with action, it takes any
\* deploymentId from any caller, and the run starts at its first await with
\* the caller as the user of the queries and mutations it runs.
deployWordPress(caller, deploymentId) ==
    /\ ClientRuns < MaxClientRuns
    /\ deployTasks' = [deployTasks EXCEPT ![deploymentId] = ScheduleDeploy(@, caller, "client")]
    /\ UNCHANGED <<apiKeys, nextApiKeysId, servers, nextServerId, tasks, written, deleteCalls, response,
                   saving>>
    /\ UNCHANGED <<deployments, nextDeploymentId>>

\* destroyWordPress called by a client: exported with action as well.
destroyWordPress(caller, deploymentId) ==
    /\ ClientRuns < MaxClientRuns
    /\ deployTasks' = [deployTasks EXCEPT ![deploymentId] =
                          ScheduleDestroyWordPress(@, caller, "client")]
    /\ UNCHANGED <<apiKeys, nextApiKeysId, servers, nextServerId, tasks, written, deleteCalls, response,
                   saving>>
    /\ UNCHANGED <<deployments, nextDeploymentId>>

\* The runs of action fn for deployment d that are at pc.
DeployTasksAt(d, fn, pc) == {t \in BagToSet(deployTasks[d]) : t.fn = fn /\ t.pc = pc}

\* The run t of deployment d moves on to pc (error: what its catch block holds).
DeployGoto(d, t, pc, error) ==
    deployTasks' = [deployTasks EXCEPT ![d] =
                       (@ (-) SetToBag({t})) (+) SetToBag({[t EXCEPT !.pc = pc, !.error = error]})]

\* deployWordPress, try: the getDeployment lookup; a throw or a null result
\* enters the catch block.
deployWordPressLookup(d, authed) ==
    \E t \in DeployTasksAt(d, "deployWordPress", "lookup") :
        /\ UNCHANGED <<apiKeys, nextApiKeysId, servers, nextServerId, tasks, written, deleteCalls, response,
                       saving>>
        /\ UNCHANGED <<deployments, nextDeploymentId>>
        /\ IF getAuthUser(t, authed) = NoUser THEN DeployGoto(d, t, "error", ErrNotAuthenticated)
           ELSE IF updateDeploymentStatusError(getAuthUser(t, authed), d) # NoError
                THEN DeployGoto(d, t, "error", ErrDeploymentNotFound)
           ELSE DeployGoto(d, t, "running", Undefined)

\* deployWordPress, step 4: status running; then the run returns.
deployWordPressRunning(d, authed) ==
    \E t \in DeployTasksAt(d, "deployWordPress", "running") :
        LET e == updateDeploymentStatusError(getAuthUser(t, authed), d) IN
        /\ UNCHANGED <<apiKeys, nextApiKeysId, servers, nextServerId, tasks, written, deleteCalls, response,
                       saving>>
        /\ UNCHANGED nextDeploymentId
        /\ IF e = NoError
           THEN /\ updateDeploymentStatusPatch(d, DeploymentStatusArgs("running", Undefined))
                /\ DeployGoto(d, t, "done", Undefined)
           ELSE /\ DeployGoto(d, t, "error", e)
                /\ UNCHANGED deployments

\* deployWordPress, catch: status error with the message; a throw here ends
\* the run with an unhandled error.
deployWordPressCatch(d, authed) ==
    \E t \in DeployTasksAt(d, "deployWordPress", "error") :
        /\ UNCHANGED <<apiKeys, nextApiKeysId, servers, nextServerId, tasks, written, deleteCalls, response,
                       saving>>
        /\ UNCHANGED nextDeploymentId
        /\ IF updateDeploymentStatusError(getAuthUser(t, authed), d) = NoError
           THEN /\ updateDeploymentStatusPatch(d, DeploymentStatusArgs("error", t.error))
                /\ DeployGoto(d, t, "done", Undefined)
           ELSE /\ DeployGoto(d, t, "failed", Undefined)
                /\ UNCHANGED deployments

\* destroyWordPress, try: deleteDeploymentRecord.
destroyWordPressDelete(d) ==
    \E t \in DeployTasksAt(d, "destroyWordPress", "delete") :
        /\ UNCHANGED <<apiKeys, nextApiKeysId, servers, nextServerId, tasks, written, deleteCalls, response,
                       saving>>
        /\ UNCHANGED nextDeploymentId
        /\ IF deleteDeploymentRecordThrows(d)
           THEN /\ DeployGoto(d, t, "catch", Undefined)
                /\ UNCHANGED deployments
           ELSE /\ deleteDeploymentRecordDelete(d)
                /\ DeployGoto(d, t, "done", Undefined)

\* destroyWordPress, catch: deleteDeploymentRecord again; a throw here is
\* unhandled.
destroyWordPressCatch(d) ==
    \E t \in DeployTasksAt(d, "destroyWordPress", "catch") :
        /\ UNCHANGED <<apiKeys, nextApiKeysId, servers, nextServerId, tasks, written, deleteCalls, response,
                       saving>>
        /\ UNCHANGED nextDeploymentId
        /\ IF deleteDeploymentRecordThrows(d)
           THEN /\ DeployGoto(d, t, "failed", Undefined)
                /\ UNCHANGED deployments
           ELSE /\ deleteDeploymentRecordDelete(d)
                /\ DeployGoto(d, t, "done", Undefined)

\* Deployments on a server that is ready: the server as provisionServer left
\* it, its owner's credentials stored, the Dokploy key validated or not.
InitDeploy ==
    \E name \in NameArgs, region \in RegionArgs, hk \in HetznerKeyArgs, dokployValid \in BOOLEAN :
        /\ nextApiKeysId = 1
        /\ apiKeys = <<[_id |-> SeededApiKeysId(1),
                        userId |-> "u1",
                        hetznerApiKey |-> hk,
                        dokployApiKey |-> "dk1",
                        dokployUrl |-> "https://dokploy.example",
                        isHetznerValid |-> TRUE,
                        isDokployValid |-> dokployValid,
                        lastValidated |-> Now]>>
        /\ servers = [id \in {1} |-> ReadyServer("u1", name, region)]
        /\ nextServerId = 2
        /\ tasks = [s \in ServerIds |->
                      IF s = 1
                      THEN SetToBag({[NewTask("provisionServer", "u1", "createServer", "installing")
                                         EXCEPT !.pc = "done"]})
                      ELSE EmptyBag]
        /\ written = [s \in ServerIds |->
                        IF s = 1 THEN {"creating", "installing", "configuring", "ready"} ELSE {}]
        /\ deleteCalls = 0
        /\ response = NoResponse
        /\ saving = NoSessions
        /\ NoDeployments

\* The actions of the deployments module, called by a client.
DeploymentActionCall ==
    \E caller \in Callers, d \in DeploymentIds :
        \/ deployWordPress(caller, d)
        \/ destroyWordPress(caller, d)

\* The user-callable mutations of the deployments module.
DeploymentCallBy(caller) ==
    \/ \E s \in ServerIds, name \in DeploymentNameArgs, domain \in DomainArgs,
          adminUser \in AdminUserArgs, adminPass \in AdminPassArgs, enableSsl \in EnableSslArgs :
           createDeployment(caller, s, name, domain, adminUser, adminPass, enableSsl)
    \/ \E d \in DeploymentIds, status \in DeploymentStatus, errorMessage \in ErrorMessageArgs :
           updateDeploymentStatus(caller, d, status, errorMessage)
    \/ \E d \in DeploymentIds : deleteDeployment(caller, d)
    \/ \E d \in DeploymentIds : deleteDeploymentRecord(caller, d)

DeploymentCall == \E caller \in Callers : DeploymentCallBy(caller)

DeployStep ==
    \E d \in DeploymentIds :
        \/ \E authed \in BOOLEAN : deployWordPressLookup(d, authed)
        \/ \E authed \in BOOLEAN : deployWordPressRunning(d, authed)
        \/ \E authed \in BOOLEAN : deployWordPressCatch(d, authed)

DestroyWordPressStep ==
    \E d \in DeploymentIds :
        \/ destroyWordPressDelete(d)
        \/ destroyWordPressCatch(d)

\* The deployments module on a server that stays: its mutations, its actions
\* called by a client, and the steps of the runs.
NextDeploy ==
    \/ DeploymentCall
    \/ DeploymentActionCall
    \/ DeployStep
    \/ DestroyWordPressStep

SpecDeploy == InitDeploy /\ [][NextDeploy]_vars

\* The scheduler runs every run it holds.
FairSpecDeploy == SpecDeploy /\ WF_vars(DeployStep) /\ WF_vars(DestroyWordPressStep)

\* Deployments on a server that its owner deletes: the mutations of the
\* deployments module and the scheduled runs, with deleteServer and the steps
\* of destroyServer.
NextDeployServer ==
    \/ DeploymentCall
    \/ DeployStep
    \/ DestroyWordPressStep
    \/ \E caller \in Callers, s \in ServerIds : deleteServer(caller, s)
    \/ DestroyStep

SpecDeployServer == InitDeploy /\ [][NextDeployServer]_vars

\* Two users side by side: each owns a ready server and holds validated
\* credentials, u2 has a running deployment on its server, and both call the
\* mutations of the deployments module and remove their credentials.
InitReads ==
    \E name \in NameArgs, region \in RegionArgs, hk \in HetznerKeyArgs :
        /\ nextApiKeysId = 1
        /\ apiKeys = [i \in 1..2 |->
                         [_id |-> SeededApiKeysId(i),
                          userId |-> IF i = 1 THEN "u1" ELSE "u2",
                          hetznerApiKey |-> hk,
                          dokployApiKey |-> "dk1",
                          dokployUrl |-> "https://dokploy.example",
                          isHetznerValid |-> TRUE,
                          isDokployValid |-> TRUE,
                          lastValidated |-> Now]]
        /\ servers = [id \in {1, SeededId} |->
                         ReadyServer(IF id = 1 THEN "u1" ELSE "u2", name, region)]
        /\ nextServerId = SeededId + 1
        /\ tasks = [s \in ServerIds |->
                      IF s \in {1, SeededId}
                      THEN SetToBag({[NewTask("provisionServer", IF s = 1 THEN "u1" ELSE "u2",
                                              "createServer", "installing")
                                         EXCEPT !.pc = "done"]})
                      ELSE EmptyBag]
        /\ written = [s \in ServerIds |->
                        IF s \in {1, SeededId}
                        THEN {"creating", "installing", "configuring", "ready"} ELSE {}]
        /\ deleteCalls = 0
        /\ response = Unobserved
        /\ saving = NoSessions
        /\ deployments = [id \in {SeededDeploymentId} |->
                             [NewDeployment("u2", SeededId, "shop", Undefined, "admin", "secret", FALSE)
                                 EXCEPT !.status = "running"]]
        /\ nextDeploymentId = 1
        /\ deployTasks = [d \in DeploymentIds |->
                            IF d = SeededDeploymentId
                            THEN SetToBag({[NewTask("deployWordPress", "u2", "createDeployment", "lookup")
                                               EXCEPT !.pc = "done"]})
                            ELSE EmptyBag]

NextReads ==
    \/ DeploymentCall
    \/ \E caller \in Callers, service \in ServiceArgs : deleteApiKeys(caller, service)
    \/ DeployStep
    \/ DestroyWordPressStep

SpecReads == InitReads /\ [][NextReads]_vars

\* Every user-callable mutation of the three modules, called by the user who
\* owns what is in the store or by nobody, each answer recorded by the
\* client: a ready server of u1 with validated credentials in the store, and
\* room for one more server.
InitAllCalls ==
    \E name \in NameArgs, region \in RegionArgs, hk \in HetznerKeyArgs :
        /\ nextApiKeysId = 1
        /\ apiKeys = <<[_id |-> SeededApiKeysId(1),
                        userId |-> "u1",
                        hetznerApiKey |-> hk,
                        dokployApiKey |-> "dk1",
                        dokployUrl |-> "https://dokploy.example",
                        isHetznerValid |-> TRUE,
                        isDokployValid |-> TRUE,
                        lastValidated |-> Now]>>
        /\ servers = [id \in {SeededId} |-> ReadyServer("u1", name, region)]
        /\ nextServerId = 1
        /\ tasks = [s \in ServerIds |->
                      IF s = SeededId
                      THEN SetToBag({[NewTask("provisionServer", "u1", "createServer", "installing")
                                         EXCEPT !.pc = "done"]})
                      ELSE EmptyBag]
        /\ written = [s \in ServerIds |->
                        IF s = SeededId
                        THEN {"creating", "installing", "configuring", "ready"} ELSE {}]
        /\ deleteCalls = 0
        /\ response = NoResponse
        /\ saving = NoSessions
        /\ NoDeployments

AllCallsCallers == {"u1", NoUser}

NextAllCalls == \E caller \in AllCallsCallers : UserCallBy(caller) \/ DeploymentCallBy(caller)

SpecAllCalls == InitAllCalls /\ [][NextAllCalls]_vars

----------------------------------------------------------------------------
\* What the claims speak of.

\* The runs of bag that satisfy Keep(t), as a bag.
SubBagOf(bag, Keep(_)) == [t \in {x \in BagToSet(bag) : Keep(x)} |-> bag[t]]

Count(bag, Keep(_)) == BagCardinality(SubBagOf(bag, Keep))

IsProvision(t) == t.fn = "provisionServer"

IsDestroy(t) == t.fn = "destroyServer"

\* A run that has taken a step and has not ended.
IsExecuting(t) == t.pc \notin {"installing", "lookup", "done", "failed"}

\* A run that has ended, by a return or by an unhandled error.
IsEnded(t) == t.pc \in {"done", "failed"}

IsUserDelete(t) == t.fn = "destroyServer" /\ t.by = "deleteServer"

ProvisionRuns(s) == Count(tasks[s], IsProvision)

DestroyRuns(s) == Count(tasks[s], IsDestroy)

Exists(s) == s \in DOMAIN servers

StatusIs(s, status) == Exists(s) /\ servers[s].status = status

\* Some run of server s took a step (left the pc it was at).
TaskMoved(s) == \E t \in BagToSet(tasks[s]) : CopiesIn(t, tasks'[s]) < CopiesIn(t, tasks[s])

\* C1: for every server id, no two background runs for that id are executing
\* at once.
C1_OneTaskInFlight ==
    \A s \in ServerIds : Count(tasks[s], IsExecuting) <= 1

\* C2: provisionServer is scheduled exactly once for each server document
\* ever inserted, in the step that inserts it, and in no other step.
C2_ProvisionScheduledOnce ==
    /\ [](\A s \in ServerIds : ProvisionRuns(s) = IF s < nextServerId THEN 1 ELSE 0)
    /\ [][\A s \in ServerIds :
            ProvisionRuns(s)' = ProvisionRuns(s) + (IF ~Exists(s) /\ Exists(s)' THEN 1 ELSE 0)]_vars

\* C2 witness: a server was inserted, deleted twice and removed, with its one
\* provisionServer run ended.
C2_Witness ==
    \E s \in ServerIds :
        /\ s < nextServerId
        /\ ~Exists(s)
        /\ Count(tasks[s], IsUserDelete) >= 2
        /\ \E t \in BagToSet(tasks[s]) : IsProvision(t) /\ IsEnded(t)

\* deleteServer was called on server s while its provisionServer run had not
\* ended: the destroyServer run it scheduled is there and has not started.
DeletedMidProvision(s) ==
    /\ \E t \in BagToSet(tasks[s]) : IsUserDelete(t) /\ t.pc = "lookup"
    /\ \E t \in BagToSet(tasks[s]) : IsProvision(t) /\ ~IsEnded(t)

\* A destroyServer run for server s has ended.
DestroyRan(s) == \E t \in BagToSet(tasks[s]) : IsDestroy(t) /\ IsEnded(t)

\* C3: a deleteServer during provisioning leads to the document removed, or
\* in status error with its hetznerServerId recorded; and once a destroyServer
\* for the server has run, no document of it has status ready.
C3_DeleteMidProvisioning ==
    /\ \A s \in ServerIds :
          DeletedMidProvision(s) ~>
              (~Exists(s) \/ (StatusIs(s, "error") /\ servers[s].hetznerServerId # ""))
    /\ [](\A s \in ServerIds : DestroyRan(s) => ~StatusIs(s, "ready"))

\* C3 witness: provisioning had written installing when the user's deletion
\* ran; the document is gone and the provisionServer run ended on the missing
\* document.
C3_Witness ==
    \E s \in ServerIds :
        /\ ~Exists(s)
        /\ "installing" \in written[s]
        /\ \E t \in BagToSet(tasks[s]) : IsUserDelete(t) /\ t.pc = "done"
        /\ \E t \in BagToSet(tasks[s]) : IsProvision(t) /\ t.pc = "failed"

\* C4: once a server document has status deleting, its status stays deleting
\* until the document is removed.
C4_DeletingStays ==
    [][\A s \in ServerIds :
          StatusIs(s, "deleting") => (~Exists(s)' \/ StatusIs(s, "deleting")')]_vars

\* C5: a document in status error, on which the user never called
\* deleteServer, stays in the store with its hetznerServerId and errorMessage
\* (a deleteServer call in the step itself aside).
C5_ErrorRecordStays ==
    [][\A s \in ServerIds :
          (StatusIs(s, "error") /\ Count(tasks[s], IsUserDelete)' = 0)
              => /\ Exists(s)'
                 /\ servers'[s].hetznerServerId = servers[s].hetznerServerId
                 /\ servers'[s].errorMessage = servers[s].errorMessage]_vars

\* C7: a deleteServer that goes through sets the status deleting and
\* schedules one destroyServer in its own step, and a server that was ready
\* and is marked deleting is in the end removed from the store.
C7_DeleteReadyServer ==
    /\ [][deleteCalls' # deleteCalls =>
            \E s \in ServerIds :
                /\ Exists(s) /\ StatusIs(s, "deleting")'
                /\ Count(tasks[s], IsUserDelete)' = Count(tasks[s], IsUserDelete) + 1
                /\ DestroyRuns(s)' = DestroyRuns(s) + 1]_vars
    /\ \A s \in ServerIds :
          (StatusIs(s, "deleting") /\ "ready" \in written[s]) ~> ~Exists(s)

\* C7 witness: a server that had been ready was deleted by its owner and is
\* gone, the destroyServer run having gone through its catch block or not.
C7_Witness ==
    \E s \in ServerIds :
        /\ ~Exists(s)
        /\ {"ready", "deleting"} \subseteq written[s]
        /\ \E t \in BagToSet(tasks[s]) : IsUserDelete(t) /\ t.pc = "done"

\* The caller has one credential document, with isHetznerValid true.
HasValidHetznerKey(caller) ==
    /\ Cardinality(byUser(caller)) = 1
    /\ \A i \in byUser(caller) : apiKeys[i].isHetznerValid

\* C8: createServer goes through exactly when the caller is a user with a
\* credential document whose isHetznerValid is true; it then inserts one
\* server document in status creating owned by the caller and schedules its
\* provisionServer; otherwise it throws and the store and the scheduler are
\* as they were.
C8_CreateServerGuard ==
    [][(response' # response /\ response'.op = "createServer") =>
          LET caller == response'.caller IN
          /\ (response'.error = NoError) <=> (caller \in Users /\ HasValidHetznerKey(caller))
          /\ response'.error = NoError =>
                /\ nextServerId' = nextServerId + 1
                /\ DOMAIN servers' = DOMAIN servers \cup {nextServerId}
                /\ servers'[nextServerId].userId = caller
                /\ servers'[nextServerId].status = "creating"
                /\ \A id \in DOMAIN servers : servers'[id] = servers[id]
                /\ Count(tasks'[nextServerId], IsProvision) = ProvisionRuns(nextServerId) + 1
                /\ Count(tasks'[nextServerId], IsDestroy) = DestroyRuns(nextServerId)
          /\ response'.error # NoError =>
                UNCHANGED <<apiKeys, nextApiKeysId, servers, nextServerId, tasks, written, deleteCalls>>]_vars

\* C8 witness: a createServer call went through and the document is there.
C8_Witness ==
    /\ response.op = "createServer"
    /\ response.error = NoError
    /\ \E s \in DOMAIN servers : servers[s].userId = response.caller

\* C9: a status is written to a server document only in the order creating,
\* installing, configuring, ready, and a document in status ready has been in
\* installing and configuring.
C9_StatusOrder ==
    /\ [](\A s \in ServerIds :
             StatusIs(s, "ready") => {"creating", "installing", "configuring"} \subseteq written[s])
    /\ [][\A s \in ServerIds :
            (Exists(s)' /\ (~Exists(s) \/ servers'[s].status # servers[s].status)) =>
                LET new == servers'[s].status IN
                /\ new = "creating" => ~Exists(s) /\ written[s] = {}
                /\ new = "installing" =>
                      "creating" \in written[s] /\ written[s] \cap {"installing", "configuring", "ready"} = {}
                /\ new = "configuring" =>
                      "installing" \in written[s] /\ written[s] \cap {"configuring", "ready"} = {}
                /\ new = "ready" =>
                      {"installing", "configuring"} \subseteq written[s] /\ "ready" \notin written[s]]_vars

\* C9 witness: a server is ready although deleteServer was called while it
\* was being provisioned.
C9_Witness ==
    \E s \in ServerIds : StatusIs(s, "ready") /\ "deleting" \in written[s]

\* C10: the status of an existing server document changes only in a step of
\* one of its background runs.
C10_StatusOnlyByActions ==
    [][\A s \in ServerIds :
          (Exists(s) /\ Exists(s)' /\ servers'[s].status # servers[s].status) => TaskMoved(s)]_vars

\* C11: deleting a server whose document is gone is a success: deleteServer
\* called by its creator on the removed id throws nothing, and no
\* destroyServer run ends by an unhandled error.
C11_DeleteMissingIsSuccess ==
    \A s \in ServerIds :
        /\ (s < nextServerId /\ ~Exists(s)) =>
               \A t \in BagToSet(tasks[s]) :
                   t.by = "createServer" => deleteServerError(t.user, s) = NoError
        /\ \A t \in BagToSet(tasks[s]) : IsDestroy(t) => t.pc # "failed"

\* The run t of server s took a step.
RunMoved(s, t) == CopiesIn(t, tasks'[s]) < CopiesIn(t, tasks[s])

\* C12: whenever a step of the try block of provisionServer failed, the catch
\* block writes status error with an errorMessage on the document and goes on
\* to schedule the cleanup destroyServer.
C12_FailureRecorded ==
    [][\A s \in ServerIds :
          \A t \in TasksAt(s, "provisionServer", "error") :
              RunMoved(s, t) =>
                  /\ StatusIs(s, "error")'
                  /\ Truthy(servers'[s].errorMessage)
                  /\ BagIn([t EXCEPT !.pc = "cleanup", !.error = Undefined], tasks'[s])]_vars

\* C13: every server document that was inserted is in the end in status
\* ready or error, or removed.
C13_NoServerStuck ==
    \A s \in ServerIds :
        Exists(s) ~> (~Exists(s) \/ StatusIs(s, "ready") \/ StatusIs(s, "error"))

\* C14: a server is put into status error only after its provisioning was
\* retried at least once: more than one provisionServer run was scheduled
\* for it.
C14_RetriedBeforeFailed ==
    \A s \in ServerIds : StatusIs(s, "error") => ProvisionRuns(s) > 1

\* C15: the apiKeys table holds at most one document per user id.
C15_OneApiKeysPerUser ==
    \A u \in Users : Cardinality(byUser(u)) <= 1

\* C15 witness: each user holds a document after calls by both users, the
\* first document validated and the last one not.
C15_Witness ==
    /\ Len(apiKeys) = Cardinality(Users)
    /\ \A u \in Users : byUser(u) # {}
    /\ apiKeys[1].isHetznerValid
    /\ ~apiKeys[Len(apiKeys)].isHetznerValid
    /\ apiKeys[Len(apiKeys)].lastValidated = Undefined

\* validateApiKeys reported the key of a service as failing authentication.
Rejected(service, errors) ==
    \E i \in 1..Len(errors) : errors[i] = FetchError(service, "401")

\* The validateApiKeys call of session c was answered.
Validated(c) == saving[c].pc = "validating" /\ saving'[c].pc # "validating"

\* C16: when validateApiKeys in the save flow reports a credential as not
\* valid, the validity flag stored for that credential of the user is false
\* afterwards.
C16_InvalidatedOnFailedVerification ==
    [][\A c \in Sessions :
          Validated(c) =>
              \A i \in byUser(SessionUser(c))' :
                  /\ Rejected("Hetzner", saving'[c].errors) => ~apiKeys'[i].isHetznerValid
                  /\ Rejected("Dokploy", saving'[c].errors) => ~apiKeys'[i].isDokployValid]_vars

\* C17: a validateApiKeys call leaves every apiKeys document and every other
\* table as it was, so none of the keys passed to it is persisted.
C17_ValidateReadOnly ==
    [][\A c \in Sessions :
          Validated(c) =>
              UNCHANGED <<apiKeys, nextApiKeysId, servers, nextServerId, tasks, written, deleteCalls>>]_vars

\* C17 witness: validateApiKeys accepted a Hetzner key for a user whose
\* document holds another key, validated; the document is as it was.
C17_Witness ==
    \E c \in Sessions :
        /\ saving[c].pc = "storeApiKeys"
        /\ saving[c].hetznerValid
        /\ \E i \in byUser(SessionUser(c)) :
               /\ apiKeys[i].isHetznerValid
               /\ apiKeys[i].hetznerApiKey # saving[c].hetznerApiKey

\* The session c took its storeApiKeys step and the mutation went through.
Stored(c) == saving[c].pc = "storeApiKeys" /\ saving'[c].pc = "updateValidationStatus"

\* C18: after a storeApiKeys that went through, a key held by the caller's
\* document is not the plaintext that was passed in, and what getUserApiKeys
\* returns has no field for key material.
C18_KeysStoredEncrypted ==
    /\ [](\A u \in Users :
             Cardinality(byUser(u)) = 1 =>
                 DOMAIN getUserApiKeys(u) \cap {"hetznerApiKey", "dokployApiKey"} = {})
    /\ [][\A c \in Sessions :
            Stored(c) =>
                \A i \in byUser(SessionUser(c))' :
                    /\ Truthy(saving[c].hetznerApiKey) =>
                           apiKeys'[i].hetznerApiKey # saving[c].hetznerApiKey
                    /\ Truthy(saving[c].dokployApiKey) =>
                           apiKeys'[i].dokployApiKey # saving[c].dokployApiKey]_vars

\* The document of server s, if there is one.
Record(s) == IF Exists(s) THEN <<servers[s]>> ELSE <<>>

\* C19: a step of a call or of a run for server a (it schedules a run of a or
\* moves one) leaves the document of every other server as it was.
C19_ServersIndependent ==
    [][\A a \in ServerIds :
          tasks'[a] # tasks[a] =>
              \A b \in ServerIds \ {a} : Record(b)' = Record(b)]_vars

\* C19 witness: two servers went different ways: one was deleted and removed
\* while the other was provisioned to ready.
C19_Witness ==
    \E a \in ServerIds, b \in ServerIds :
        /\ a # b
        /\ ~Exists(a) /\ "deleting" \in written[a]
        /\ StatusIs(b, "ready") /\ "deleting" \notin written[b]

\* C20: a server document in status creating has an empty hetznerServerId and
\* dokployInstalled false; one in status ready has a hetznerServerId, an
\* ipAddress and dokployInstalled true.
C20_FieldsByStatus ==
    \A s \in ServerIds :
        /\ StatusIs(s, "creating") =>
               servers[s].hetznerServerId = "" /\ ~servers[s].dokployInstalled
        /\ StatusIs(s, "ready") =>
               /\ Truthy(servers[s].hetznerServerId)
               /\ Truthy(servers[s].ipAddress)
               /\ servers[s].dokployInstalled

\* C20 witness: a server was provisioned to ready and holds the provider id
\* and the address written on the way.
C20_Witness ==
    \E s \in ServerIds :
        /\ StatusIs(s, "ready")
        /\ servers[s].hetznerServerId = PlaceholderServerId
        /\ servers[s].ipAddress = PlaceholderIp
        /\ \E t \in BagToSet(tasks[s]) : IsProvision(t) /\ t.pc = "done"

\* C21: an apiKeys document with isHetznerValid true holds a hetznerApiKey
\* (the key whose validation succeeded).
C21_ValidFlagHasKey ==
    \A i \in 1..Len(apiKeys) : apiKeys[i].isHetznerValid => Truthy(apiKeys[i].hetznerApiKey)

\* The call op has just been answered without an error.
WentThrough(op) ==
    /\ response' # response
    /\ response'.op = op
    /\ response'.error = NoError

\* C22: right after a storeApiKeys that went through, the caller's document
\* has isHetznerValid false, isDokployValid false and no lastValidated; and a
\* flag goes from false to true only in an updateValidationStatus step.
C22_StoreResetsValidation ==
    /\ [][\A u \in Users :
            WentThrough("storeApiKeys") /\ response'.caller = u =>
                /\ byUser(u)' # {}
                /\ \A i \in byUser(u)' :
                       /\ ~apiKeys'[i].isHetznerValid
                       /\ ~apiKeys'[i].isDokployValid
                       /\ apiKeys'[i].lastValidated = Undefined]_vars
    /\ [][\A u \in Users :
            \A i \in byUser(u), j \in byUser(u)' :
                ((~apiKeys[i].isHetznerValid /\ apiKeys'[j].isHetznerValid)
                 \/ (~apiKeys[i].isDokployValid /\ apiKeys'[j].isDokployValid))
                    => WentThrough("updateValidationStatus") /\ response'.caller = u]_vars

\* C22 witness: storeApiKeys by a user has just gone through, the user's
\* document holds both keys with the flags reset and no lastValidated, next
\* to the validated document of another user.
C22_Witness ==
    /\ response.op = "storeApiKeys"
    /\ response.error = NoError
    /\ response.caller \in Users
    /\ \E i \in byUser(response.caller) :
           /\ Truthy(apiKeys[i].hetznerApiKey)
           /\ Truthy(apiKeys[i].dokployApiKey)
           /\ ~apiKeys[i].isHetznerValid
           /\ ~apiKeys[i].isDokployValid
           /\ apiKeys[i].lastValidated = Undefined
    /\ \E u \in Users \ {response.caller} :
           \E j \in byUser(u) : apiKeys[j].isHetznerValid /\ apiKeys[j].lastValidated = Now

\* The user holds one credential document with a Hetzner key in it, marked
\* valid.
HoldsValidatedHetznerKey(u) ==
    /\ Cardinality(byUser(u)) = 1
    /\ \A i \in byUser(u) : Truthy(apiKeys[i].hetznerApiKey) /\ apiKeys[i].isHetznerValid

\* The step is a call of storeApiKeys, updateValidationStatus or deleteApiKeys
\* by the user.
OwnCredentialCall(u) ==
    /\ response' # response
    /\ response'.caller = u
    /\ response'.op \in {"storeApiKeys", "updateValidationStatus", "deleteApiKeys"}

CreateDeploymentAnswered == response'.op = "createDeployment" /\ response' # response

\* What createDeployment asks of the store at the time of the call.
ReadyForDeployment(caller, s) ==
    /\ caller # NoUser
    /\ s \in DOMAIN servers
    /\ servers[s].userId = caller
    /\ servers[s].status = "ready"
    /\ servers[s].dokployInstalled
    /\ Cardinality(byUser(caller)) = 1
    /\ \A i \in byUser(caller) : apiKeys[i].isDokployValid

\* C24: createDeployment goes through exactly when the server exists, is the
\* caller's, is ready with dokployInstalled true and the caller's credential
\* document has isDokployValid true; when it goes through it inserts one
\* document with status deploying on such a server and schedules one
\* deployWordPress for it, and when it fails it inserts and schedules nothing.
C24_CreateDeploymentGuard ==
    [][/\ \A caller \in Callers, s \in ServerIds :
              (createDeploymentError(caller, s) = NoError) <=> ReadyForDeployment(caller, s)
       /\ CreateDeploymentAnswered =>
              IF response'.error = NoError
              THEN /\ DOMAIN deployments' = DOMAIN deployments \cup {nextDeploymentId}
                   /\ nextDeploymentId \notin DOMAIN deployments
                   /\ \A d \in DOMAIN deployments : deployments'[d] = deployments[d]
                   /\ deployments'[nextDeploymentId].status = "deploying"
                   /\ deployments'[nextDeploymentId].userId = response'.caller
                   /\ ReadyForDeployment(response'.caller, deployments'[nextDeploymentId].serverId)
                   /\ deployTasks' = [deployTasks EXCEPT ![nextDeploymentId] =
                                         @ (+) SetToBag({NewTask("deployWordPress", response'.caller,
                                                                 "createDeployment", "lookup")})]
              ELSE /\ deployments' = deployments
                   /\ deployTasks' = deployTasks]_vars

\* A createDeployment that went through: the caller's document in status
\* deploying and its deployWordPress run not started yet.
C24_Witness ==
    /\ response.op = "createDeployment"
    /\ response.error = NoError
    /\ \E d \in DOMAIN deployments :
           /\ deployments[d].status = "deploying"
           /\ deployments[d].userId = response.caller
    /\ \E t \in BagToSet(deployTasks[1]) : t.fn = "deployWordPress" /\ t.pc = "lookup"

\* C25: every deployment document refers to a server document that is in the
\* store, and has that server's userId.
C25_DeploymentHasServer ==
    \A d \in DOMAIN deployments :
        /\ deployments[d].serverId \in DOMAIN servers
        /\ deployments[d].userId = servers[deployments[d].serverId].userId

\* C26: a call of a user-callable function leaves every server and
\* deployment document of a user other than the caller (any document, when
\* nobody is authenticated) as it was.
C26_OwnerOnlyWrites ==
    [][response' # response =>
          /\ \A s \in DOMAIN servers :
                 servers[s].userId # response'.caller =>
                     s \in DOMAIN servers' /\ servers'[s] = servers[s]
          /\ \A d \in DOMAIN deployments :
                 deployments[d].userId # response'.caller =>
                     d \in DOMAIN deployments' /\ deployments'[d] = deployments[d]]_vars

\* getUserServers: the fields of the caller's server documents.
getUserServers(caller) ==
    IF caller = NoUser THEN [error |-> ErrNotAuthenticated, items |-> {}]
    ELSE [error |-> NoError,
          items |-> {[_id |-> s,
                      name |-> servers[s].name,
                      ipAddress |-> servers[s].ipAddress,
                      status |-> servers[s].status,
                      region |-> servers[s].region,
                      dokployInstalled |-> servers[s].dokployInstalled,
                      createdAt |-> servers[s].createdAt,
                      errorMessage |-> servers[s].errorMessage] :
                     s \in {id \in DOMAIN servers : servers[id].userId = caller}}]

\* getUserDeployments: the caller's deployment documents by the by_user
\* index, each with the name of the server it refers to.
getUserDeployments(caller) ==
    IF caller = NoUser THEN [error |-> ErrNotAuthenticated, items |-> {}]
    ELSE [error |-> NoError,
          items |-> {DeploymentViewWithServer(d) :
                     d \in {id \in DOMAIN deployments : deployments[id].userId = caller}}]

\* Mutant: getServerDeployments does not check who owns the server.
getServerDeploymentsAnyOwner(caller, serverId) ==
    IF caller = NoUser THEN [error |-> ErrNotAuthenticated, items |-> {}]
    ELSE [error |-> NoError,
          items |-> {DeploymentView(d) :
                     d \in {id \in DOMAIN deployments : deployments[id].serverId = serverId}}]

\* getServerDeployments: the owner check on the server, then the deployment
\* documents by the by_server index.
getServerDeployments(caller, serverId) ==
    IF caller = NoUser THEN [error |-> ErrNotAuthenticated, items |-> {}]
    ELSE IF serverId \notin DOMAIN servers \/ servers[serverId].userId # caller
         THEN [error |-> ErrServerAccess, items |-> {}]
    ELSE [error |-> NoError,
          items |-> {DeploymentView(d) :
                     d \in {id \in DOMAIN deployments : deployments[id].serverId = serverId}}]

\* getDeployment and getUserApiKeys as sets of results: empty for null.
getDeploymentItems(caller, d) ==
    IF d \in DOMAIN deployments /\ deployments[d].userId = caller
    THEN {getDeployment(caller, d)} ELSE {}

getUserApiKeysItems(caller) ==
    IF Cardinality(byUser(caller)) = 1 THEN {getUserApiKeys(caller)} ELSE {}

\* What the read queries answer to a user.
QueryResults(u) ==
    [userServers |-> getUserServers(u),
     userDeployments |-> getUserDeployments(u),
     serverDeployments |-> [s \in ServerIds |-> getServerDeployments(u, s)],
     deployment |-> [d \in DeploymentIds |-> getDeploymentItems(u, d)],
     userApiKeys |-> getUserApiKeysItems(u),
     apiKeysThrows |-> uniqueThrows(u)]

\* The documents of a user in the three tables.
OwnDocuments(u) ==
    [servers |-> {<<s, servers[s]>> : s \in {id \in DOMAIN servers : servers[id].userId = u}},
     deployments |-> {<<d, deployments[d]>> :
                      d \in {id \in DOMAIN deployments : deployments[id].userId = u}},
     apiKeys |-> {apiKeys[i] : i \in byUser(u)}]

\* C27: every item a read query returns to a user comes from a document with
\* the user's id (a deployment's server name from a server of the user, when
\* the server exists), and a step that leaves the user's own documents as
\* they were leaves every query result of the user as it was.
C27_ReadsIsolated ==
    /\ [](\A u \in Users :
            /\ \A x \in getUserServers(u).items : servers[x._id].userId = u
            /\ \A x \in getUserDeployments(u).items :
                   /\ deployments[x._id].userId = u
                   /\ x.serverId \in DOMAIN servers => servers[x.serverId].userId = u
            /\ \A s \in ServerIds : \A x \in getServerDeployments(u, s).items :
                   deployments[x._id].userId = u /\ servers[s].userId = u
            /\ \A d \in DeploymentIds : \A x \in getDeploymentItems(u, d) :
                   /\ deployments[x._id].userId = u
                   /\ x.serverId \in DOMAIN servers => servers[x.serverId].userId = u)
    /\ [][\A u \in Users :
            OwnDocuments(u)' = OwnDocuments(u) => QueryResults(u)' = QueryResults(u)]_vars

\* u1 holds a server, credentials and a deployment, while u2 has changed its
\* own deployment and removed its credentials.
C27_Witness ==
    /\ byUser("u2") = {}
    /\ getUserServers("u1").items # {}
    /\ getUserDeployments("u1").items # {}
    /\ \E s \in ServerIds : getServerDeployments("u1", s).items # {}
    /\ \E d \in DeploymentIds : getDeploymentItems("u1", d) # {}
    /\ getUserApiKeysItems("u1") # {}
    /\ \E x \in getUserDeployments("u2").items : x.status = "stopped"

\* A deployWordPress run of deployment d took a step.
DeployMoved(d) ==
    \E t \in BagToSet(deployTasks[d]) :
        /\ t.fn = "deployWordPress"
        /\ CopiesIn(t, deployTasks'[d]) < CopiesIn(t, deployTasks[d])

\* deleteDeployment has set the status of d to stopped and scheduled its
\* destroyWordPress.
DeletionRequested(d) ==
    /\ d \in DOMAIN deployments
    /\ deployments[d].status = "stopped"
    /\ \E t \in BagToSet(deployTasks[d]) : t.fn = "destroyWordPress" /\ t.by = "deleteDeployment"

\* C28: once deleteDeployment has set a deployment to stopped, no step of a
\* deployWordPress run sets its status to running or error, and once
\* deleteDeployment has scheduled its destroyWordPress no deployWordPress or
\* destroyWordPress run of the deployment ends with an unhandled error.
C28_DeleteStopsDeploy ==
    [][\A d \in DeploymentIds :
          /\ (DeletionRequested(d) /\ DeployMoved(d)) =>
                 (d \in DOMAIN deployments' => deployments'[d].status \notin {"running", "error"})
          /\ \A t \in BagToSet(deployTasks'[d]) :
                 (\E r \in BagToSet(deployTasks[d]) :
                      r.fn = "destroyWordPress" /\ r.by = "deleteDeployment") => t.pc # "failed"]_vars

\* C29: under fair scheduling, a deployment document in status deploying
\* eventually leaves that status (for running or error, or for stopped on the
\* way to its removal) or is removed.
C29_DeploymentLeavesDeploying ==
    \A d \in 1..MaxDeployments :
        (d \in DOMAIN deployments /\ deployments[d].status = "deploying")
            ~> (d \notin DOMAIN deployments \/ deployments[d].status # "deploying")

\* C30: every destroyServer run that ends, ends by a return and not by an
\* unhandled error, and the server document is absent when it ends, also when
\* several destroyServer runs of one server are interleaved.
C30_DestroyRunEndsClean ==
    [][\A s \in ServerIds :
          \A t \in BagToSet(tasks'[s]) :
              (IsDestroy(t) /\ IsEnded(t) /\ CopiesIn(t, tasks'[s]) > CopiesIn(t, tasks[s])) =>
                  (t.pc = "done" /\ ~Exists(s)')]_vars

\* The mutations that ask for a user first.
AuthenticatedMutations ==
    {"storeApiKeys", "updateValidationStatus", "deleteApiKeys", "createServer", "deleteServer",
     "createDeployment", "updateDeploymentStatus", "deleteDeployment"}

\* C31: a call of storeApiKeys, updateValidationStatus, deleteApiKeys,
\* createServer, deleteServer, createDeployment, updateDeploymentStatus or
\* deleteDeployment with no user authenticated fails with "Not authenticated"
\* and leaves the three tables and the scheduler as they were.
C31_UnauthenticatedRejected ==
    [][(/\ response' # response
        /\ response'.caller = NoUser
        /\ response'.op \in AuthenticatedMutations)
          => /\ response'.error = ErrNotAuthenticated
             /\ UNCHANGED <<apiKeys, nextApiKeysId, servers, nextServerId, tasks, written, deleteCalls>>
             /\ UNCHANGED <<deployments, nextDeploymentId, deployTasks>>]_vars

\* Nobody is authenticated and deleteDeployment has just been refused, with
\* credentials, a ready server and a deployment in the store.
C31_Witness ==
    /\ response.caller = NoUser
    /\ response.op = "deleteDeployment"
    /\ response.error = ErrNotAuthenticated
    /\ Len(apiKeys) > 0
    /\ \E s \in DOMAIN servers : servers[s].status = "ready"
    /\ \E d \in DOMAIN deployments : deployments[d].status = "deploying"

====
